---- MODULE Spec2Model ----
(***************************************************************************)
(* NostrAuthService (src/lib/relay-auth.ts): the NIP-42 handshake and the  *)
(* kind-30078 publication of one session over browser WebSockets.          *)
(*                                                                         *)
(* Every authenticate() call that reaches `new WebSocket` creates one      *)
(* socket; call k creates socket k.  The closures a call creates (its      *)
(* onmessage handler, its timer, its resolve/reject) are named by k.       *)
(* An async function is cut at its awaits: the signer (a browser           *)
(* extension) answers in a later task, and other events run in between.    *)
(***************************************************************************)
EXTENDS Integers, Sequences, FiniteSets, TLC

\* Bounds of the model.
MaxConn == 2        \* authenticate() calls, hence sockets
MaxPub == 2         \* publishKind30078Event calls that pass the guard
MaxSign == 2        \* proof signings in flight at once
MaxCh == 2          \* distinct challenge strings the relay issues
MaxMsgs == 3        \* inbound messages the relay sends in a run
MaxCalls == 3       \* authenticate() and guarded publish calls in a run

Conns == 1..MaxConn
Pubs == 1..MaxPub
Challenges == 1..MaxCh

\* constructor(private config: AuthConfig)
config == [relayUrl |-> "ws://relay"]

\* Event ids.  The signer returns the event with its id, the hash of the
\* event's fields (64 hex characters).  Proof records differ by their
\* challenge tag; the event of each publish call differs from the others (by
\* created_at or by its arguments).  ShortId is an id the relay sends that is
\* not 64 characters long.
ShortId == 0
AuthEventId(ch) == ch
PublishEventId(p) == MaxCh + p
Ids == 0..(MaxCh + MaxPub)
Len64(id) == id # ShortId

\* message[3] of an OK, message[2] of a CLOSED.
Texts == {"auth-required: login", "rate-limited", ""}
\* message[3].includes('auth-required'), message[2].startsWith('auth-required')
AuthRequired(text) == text = "auth-required: login"
\* `Publish failed: ${message[3] || 'Unknown error'}`
PublishFailed(text) == "Publish failed: " \o (IF text = "" THEN "Unknown error" ELSE text)

\* Inbound messages, after JSON.parse.  OTHER is any other first element
\* (EVENT, EOSE, NOTICE) or data that does not parse.
Msg(t, ch, id, ok, text) == [t |-> t, ch |-> ch, id |-> id, ok |-> ok, text |-> text]
NoMsg == Msg("NONE", 0, 0, FALSE, "")
Messages ==
  {Msg("AUTH", ch, 0, FALSE, "") : ch \in Challenges}
    \cup {Msg("OK", 0, id, TRUE, "") : id \in Ids}
    \cup {Msg("OK", 0, id, FALSE, x) : id \in Ids, x \in Texts}
    \cup {Msg("CLOSED", 0, 0, FALSE, x) : x \in Texts}
    \cup {Msg("OTHER", 0, 0, FALSE, "")}

\* onmessage values: the handler authenticate() call k installs, and the
\* handler publish p installs around the one it found.
H(k) == k
W(p) == MaxConn + p

VARIABLES
  relay,            \* this.relay: 0 is null, else the socket
  isAuthenticated,  \* this.isAuthenticated
  authChallenge,    \* this.authChallenge: 0 is null
  readyState,       \* of each socket; "NONE" before it is created
  onmessage,        \* of each socket
  authPromise,      \* of each authenticate() call
  authTimer,        \* const timeout of each authenticate() call
  proofSigning,     \* awaits of signer.signEvent(authEvent) in flight
  pubPromise,       \* of each publish that passed the guard
  pubTimer,         \* const timeout of each publish
  pubOrig,          \* const originalOnMessage of each publish
  pubValue,         \* what each publish promise settled with
  pubConn,          \* history: this.relay when the publish swapped the handler
  challenged,       \* history: the number of challenges handled so far
  accepted,         \* history: the socket received an OK the handshake accepts
  delivered,        \* history: the number of inbound messages so far
  authResolved,     \* history: an authenticate() resolved true since the
                    \* construction or the last disconnect()
  proofsSent,       \* history: the ids of the proofs put on the wire
  failed,           \* history: the sockets the transport failed
  last,             \* history: the step just taken and what it sent
  observers,        \* what an observer of the session has seen
  wrapper           \* the UseNostrAuth object on the service

\* observer: disconnect() returned and authenticate() has not been called
\* since
quiet == observers.quiet
\* observer: the publishes whose timer had fired when the publish was called
pubAfter == observers.pubAfter
\* UseNostrAuth: this.state
wstate == wrapper.state
\* UseNostrAuth: what authenticate() and publishEvent() returned, per call
wauth == wrapper.auth
wpub == wrapper.pub
\* UseNostrAuth: this.listeners, in insertion order
listeners == wrapper.listeners
\* the listener of each unsubscribe function returned, and those called so far
handles == wrapper.handles
cancelled == wrapper.cancelled
\* the calls of listeners the step just taken made
notified == wrapper.notified

authVars == <<authPromise, authTimer>>
pubVars == <<pubPromise, pubTimer, pubOrig, pubValue, pubConn>>
history == <<accepted, delivered, authResolved, proofsSent, failed, challenged>>
vars == <<relay, isAuthenticated, authChallenge, readyState, onmessage,
          authVars, proofSigning, pubVars, history, last, observers, wrapper>>

\* A step: its name, the socket, call or publish it is about, the inbound
\* message it delivered and the messages it put on the wire.
Step(op, c, m, sent) == [op |-> op, c |-> c, m |-> m, sent |-> sent]

\* The value a publish promise resolves with (the id) or the message of the
\* Error it rejects with.
Value(id, text) == [id |-> id, text |-> text]
NoValue == Value(0, "")

\* UseNostrAuth: the state snapshot; "" is null.
State(a, c, e, id) == [isAuthenticated |-> a, isConnecting |-> c, error |-> e, eventId |-> id]

Init ==
  /\ relay = 0
  /\ isAuthenticated = FALSE
  /\ authChallenge = 0
  /\ readyState = [c \in Conns |-> "NONE"]
  /\ onmessage = [c \in Conns |-> 0]
  /\ authPromise = [k \in Conns |-> "none"]
  /\ authTimer = [k \in Conns |-> "unset"]
  /\ proofSigning = {}
  /\ pubPromise = [p \in Pubs |-> "none"]
  /\ pubTimer = [p \in Pubs |-> "unset"]
  /\ pubOrig = [p \in Pubs |-> 0]
  /\ pubValue = [p \in Pubs |-> NoValue]
  /\ pubConn = [p \in Pubs |-> 0]
  /\ challenged = 0
  /\ accepted = [c \in Conns |-> FALSE]
  /\ delivered = 0
  /\ authResolved = FALSE
  /\ proofsSent = {}
  /\ failed = {}
  /\ last = Step("init", 0, NoMsg, {})
  /\ observers = [quiet |-> FALSE, pubAfter |-> [p \in Pubs |-> {}]]
  /\ wrapper = [state |-> State(FALSE, FALSE, "", 0),
                auth |-> [k \in Conns |-> "none"],
                pub |-> [p \in Pubs |-> "none"],
                listeners |-> <<>>, handles |-> <<>>, cancelled |-> {},
                notified |-> <<>>]

\* The calls made so far.
Calls ==
  Cardinality({k \in Conns : authPromise[k] # "none"})
    + Cardinality({p \in Pubs : pubPromise[p] # "none"})

\* clearTimeout(timeout)
ClearTimeout(t) == IF t = "armed" THEN "cleared" ELSE t
\* resolve / reject of a promise: only the first settles it
Settle(p, v) == IF p = "pending" THEN v ELSE p

\* WebSocket.send: throws while CONNECTING, puts the data on the wire while
\* OPEN, and drops it silently while CLOSING or CLOSED.
Wire(t, c, ch, id, from) ==
  [t |-> t, c |-> c, ch |-> ch, id |-> id, url |-> config.relayUrl, from |-> from]
Send(c, w) == IF readyState[c] = "OPEN" THEN {w} ELSE {}

(***************************************************************************)
(* Message handlers.  A handler runs on the session's fields; Heap is the  *)
(* part of the state a handler can change, so that a chain of handlers     *)
(* (a publish handler calls the one it replaced first) is run in order.    *)
(***************************************************************************)
Heap ==
  [isAuthenticated |-> isAuthenticated, authChallenge |-> authChallenge,
   onmessage |-> onmessage, authPromise |-> authPromise, authTimer |-> authTimer,
   proofSigning |-> proofSigning, pubPromise |-> pubPromise, pubTimer |-> pubTimer,
   pubValue |-> pubValue, challenged |-> challenged]

\* The challenge branch: store the challenge, build the proof record from
\* this.config.relayUrl and this.authChallenge, and await the signer.  Each
\* run of the branch is one await: n tells the runs apart.
OnChallenge(k, c, m, S) ==
  [S EXCEPT !.authChallenge = m.ch,
            !.challenged = @ + 1,
            !.proofSigning = @ \cup {[k |-> k, c |-> c, ch |-> m.ch,
                                      n |-> S.challenged + 1]}]

\* The acceptance branch: message[0] === 'OK' && message[2] === true &&
\* message[1].length === 64.
IsAcceptance(m) == m.t = "OK" /\ m.ok /\ Len64(m.id)
OnAccepted(k, S) ==
  [S EXCEPT !.isAuthenticated = TRUE,
            !.authTimer[k] = ClearTimeout(@),
            !.authPromise[k] = Settle(@, "resolved")]

\* A faulty rejection branch: clearTimeout before the test of the text.
OnRejectedClearsTimer(k, m, S) ==
  IF AuthRequired(m.text)
  THEN [S EXCEPT !.authTimer[k] = ClearTimeout(@),
                 !.authPromise[k] = Settle(@, "rej_failed")]
  ELSE [S EXCEPT !.authTimer[k] = ClearTimeout(@)]

\* The rejection branch: message[0] === 'OK' && message[2] === false.
OnRejected(k, m, S) ==
  IF AuthRequired(m.text)
  THEN [S EXCEPT !.authTimer[k] = ClearTimeout(@),
                 !.authPromise[k] = Settle(@, "rej_failed")]
  ELSE S

\* A faulty handler: a CLOSED with an auth-required reason is taken for a
\* rejection.
BaseHandlerClosedRejects(k, c, m, S) ==
  IF m.t = "AUTH" THEN OnChallenge(k, c, m, S)
  ELSE IF IsAcceptance(m) THEN OnAccepted(k, S)
  ELSE IF m.t = "CLOSED" THEN OnRejected(k, m, S)
  ELSE IF m.t = "OK" /\ ~m.ok THEN OnRejected(k, m, S)
  ELSE S

\* this.relay.onmessage of authenticate() call k, up to its first await;
\* c is the socket the message arrived on.
BaseHandler(k, c, m, S) ==
  IF m.t = "AUTH" THEN OnChallenge(k, c, m, S)
  ELSE IF IsAcceptance(m) THEN OnAccepted(k, S)
  ELSE IF m.t = "CLOSED" THEN S
  ELSE IF m.t = "OK" /\ ~m.ok THEN OnRejected(k, m, S)
  ELSE S

\* A faulty test: the handler takes any OK for its own.
PublishMatchesAnyOk(p, m) == m.t = "OK"

\* message[0] === 'OK' && message[1] === signedEvent.id
PublishMatches(p, m) == m.t = "OK" /\ m.id = PublishEventId(p)

\* this.relay!.onmessage = originalOnMessage: a TypeError, caught, when
\* this.relay is null.
RestoreHandler(p, S) ==
  IF relay = 0 THEN S ELSE [S EXCEPT !.onmessage[relay] = pubOrig[p]]

\* A faulty outcome: the relay's text is dropped.
PublishOutcomeDropsText(p, m) ==
  IF m.ok THEN Value(PublishEventId(p), "") ELSE Value(0, PublishFailed(""))

\* resolve(signedEvent.id) / reject(new Error(`Publish failed: ...`))
PublishOutcome(p, m) ==
  IF m.ok THEN Value(PublishEventId(p), "") ELSE Value(0, PublishFailed(m.text))

\* The handler publish p installs, after its call of originalOnMessage.
PublishHandler(p, m, S) ==
  IF PublishMatches(p, m)
  THEN RestoreHandler(p,
         [S EXCEPT !.pubTimer[p] = ClearTimeout(@),
                   !.pubPromise[p] =
                      Settle(@, IF m.ok THEN "resolved" ELSE "rej_failed"),
                   !.pubValue[p] =
                      IF S.pubPromise[p] = "pending" THEN PublishOutcome(p, m) ELSE @])
  ELSE S

RECURSIVE RunHandler(_, _, _, _)
RunHandler(h, c, m, S) ==
  IF h <= MaxConn
  THEN BaseHandler(h, c, m, S)
  ELSE PublishHandler(h - MaxConn, m, RunHandler(pubOrig[h - MaxConn], c, m, S))

\* The session's fields after a handler ran.
Store(S) ==
  /\ isAuthenticated' = S.isAuthenticated
  /\ authChallenge' = S.authChallenge
  /\ onmessage' = S.onmessage
  /\ authPromise' = S.authPromise
  /\ authTimer' = S.authTimer
  /\ proofSigning' = S.proofSigning
  /\ pubPromise' = S.pubPromise
  /\ pubTimer' = S.pubTimer
  /\ pubValue' = S.pubValue
  /\ challenged' = S.challenged

(***************************************************************************)
(* authenticate()                                                          *)
(***************************************************************************)
\* getNip07Signer(): window.nostr is there or not, as the page finds it at
\* the call.
Nip07 == BOOLEAN

\* A faulty call: the socket is opened before the signer is looked for.
AuthenticateConnectsFirst(k, nostr) ==
  /\ Calls < MaxCalls
  /\ authPromise[k] = "none"
  /\ \A j \in Conns : j < k => authPromise[j] # "none"
  /\ authPromise' = [authPromise EXCEPT ![k] = IF nostr THEN "pubkey" ELSE "rej_nosigner"]
  /\ relay' = IF nostr THEN relay ELSE k
  /\ readyState' = IF nostr THEN readyState ELSE [readyState EXCEPT ![k] = "CONNECTING"]
  /\ last' = Step(IF nostr THEN "authenticate" ELSE "authenticateNoSigner", k, NoMsg, {})
  /\ UNCHANGED <<isAuthenticated, authChallenge, onmessage,
                 authTimer, proofSigning, pubVars, history>>

\* The call, up to `await signer.getPublicKey()`; without window.nostr
\* getNip07Signer() throws and the call rejects with 'NIP-07 extension not
\* found', before the promise executor.
Authenticate(k, nostr) ==
  /\ Calls < MaxCalls
  /\ authPromise[k] = "none"
  /\ \A j \in Conns : j < k => authPromise[j] # "none"
  /\ authPromise' = [authPromise EXCEPT ![k] = IF nostr THEN "pubkey" ELSE "rej_nosigner"]
  /\ last' = Step(IF nostr THEN "authenticate" ELSE "authenticateNoSigner", k, NoMsg, {})
  /\ UNCHANGED <<relay, isAuthenticated, authChallenge, readyState, onmessage,
                 authTimer, proofSigning, pubVars, history>>

\* signer.getPublicKey() rejected: the outer catch rethrows.
PubkeyRefused(k) ==
  /\ authPromise[k] = "pubkey"
  /\ authPromise' = [authPromise EXCEPT ![k] = "rej_pubkey"]
  /\ last' = Step("pubkeyRefused", k, NoMsg, {})
  /\ UNCHANGED <<relay, isAuthenticated, authChallenge, readyState, onmessage,
                 authTimer, proofSigning, pubVars, history>>

\* The promise executor: setTimeout, this.relay = new WebSocket(...), and the
\* four handlers.
Connect(k) ==
  /\ authPromise[k] = "pubkey"
  /\ authPromise' = [authPromise EXCEPT ![k] = "pending"]
  /\ authTimer' = [authTimer EXCEPT ![k] = "armed"]
  /\ relay' = k
  /\ readyState' = [readyState EXCEPT ![k] = "CONNECTING"]
  /\ onmessage' = [onmessage EXCEPT ![k] = H(k)]
  /\ last' = Step("connect", k, NoMsg, {})
  /\ UNCHANGED <<isAuthenticated, authChallenge, proofSigning, pubVars, history>>

\* onopen: this.relay!.send(reqMsg), on whatever this.relay is by then.
OnOpen(c) ==
  /\ readyState[c] = "CONNECTING"
  /\ readyState' = [readyState EXCEPT ![c] = "OPEN"]
  /\ last' = Step("open", c, NoMsg,
                  IF relay = 0 THEN {}
                  ELSE IF relay = c THEN {Wire("REQ", c, 0, 0, c)}
                  ELSE Send(relay, Wire("REQ", relay, 0, 0, c)))
  /\ UNCHANGED <<relay, isAuthenticated, authChallenge, onmessage, authVars,
                 proofSigning, pubVars, history>>

\* A message event: the socket's onmessage runs.
OnMessage(c, m) ==
  /\ readyState[c] = "OPEN"
  /\ delivered < MaxMsgs
  /\ m.t = "AUTH" => Cardinality(proofSigning) < MaxSign
  /\ Store(RunHandler(onmessage[c], c, m, Heap))
  /\ accepted' = [accepted EXCEPT ![c] = @ \/ IsAcceptance(m)]
  /\ delivered' = delivered + 1
  /\ authResolved' = (authResolved \/ \E k \in Conns :
                        authPromise[k] = "pending" /\ authPromise'[k] = "resolved")
  /\ last' = Step("message", c, m, {})
  /\ UNCHANGED <<relay, readyState, pubOrig, pubConn, proofsSent, failed>>

\* this.relay!.send(authMsg) once signer.signEvent(authEvent) resolved.  A
\* null this.relay or a CONNECTING socket throws, into the handler's catch.
SendProof(task) ==
  IF relay = 0 THEN {}
  ELSE Send(relay, Wire("AUTH", relay, task.ch, AuthEventId(task.ch), task.c))

ProofSigned(task) ==
  /\ task \in proofSigning
  /\ proofSigning' = proofSigning \ {task}
  /\ proofsSent' = proofsSent \cup {w.id : w \in SendProof(task)}
  /\ last' = Step("proofSigned", task.k, NoMsg, SendProof(task))
  /\ UNCHANGED <<relay, isAuthenticated, authChallenge, readyState, onmessage,
                 authVars, pubVars, accepted, delivered, authResolved, failed,
                 challenged>>

\* signer.signEvent(authEvent) rejected: the handler's catch logs it.
ProofRefused(task) ==
  /\ task \in proofSigning
  /\ proofSigning' = proofSigning \ {task}
  /\ last' = Step("proofRefused", task.k, NoMsg, {})
  /\ UNCHANGED <<relay, isAuthenticated, authChallenge, readyState, onmessage,
                 authVars, pubVars, history>>

\* The setTimeout callback of authenticate(): reject, and nothing else.
AuthTimeout(k) ==
  /\ authTimer[k] = "armed"
  /\ authTimer' = [authTimer EXCEPT ![k] = "fired"]
  /\ authPromise' = [authPromise EXCEPT ![k] = Settle(@, "rej_timeout")]
  /\ last' = Step("authTimeout", k, NoMsg, {})
  /\ UNCHANGED <<relay, isAuthenticated, authChallenge, readyState, onmessage,
                 proofSigning, pubVars, history>>

\* The transport fails the connection: the socket is CLOSED, and its error
\* event and then its close event are fired (onerror, then onclose).
OnError(c) ==
  /\ readyState[c] \in {"CONNECTING", "OPEN", "CLOSING"}
  /\ readyState' = [readyState EXCEPT ![c] = "CLOSED"]
  /\ authTimer' = [authTimer EXCEPT ![c] = ClearTimeout(@)]
  /\ authPromise' = [authPromise EXCEPT ![c] = Settle(@, "rej_transport")]
  /\ isAuthenticated' = FALSE
  /\ failed' = failed \cup {c}
  /\ last' = Step("error", c, NoMsg, {})
  /\ UNCHANGED <<relay, authChallenge, onmessage, proofSigning, pubVars,
                 accepted, delivered, authResolved, proofsSent, challenged>>

\* The connection closes without an error (the relay closed it, or the
\* closing handshake close() began is over): onclose.
OnClose(c) ==
  /\ readyState[c] \in {"OPEN", "CLOSING"}
  /\ readyState' = [readyState EXCEPT ![c] = "CLOSED"]
  /\ isAuthenticated' = FALSE
  /\ last' = Step("close", c, NoMsg, {})
  /\ UNCHANGED <<relay, authChallenge, onmessage, authVars, proofSigning,
                 pubVars, history>>

(***************************************************************************)
(* publishKind30078Event(content, dTag, additionalTags)                    *)
(***************************************************************************)
\* if (!this.isAuthenticated || !this.relay) throw
PublishGuard == isAuthenticated /\ relay # 0

\* A call the guard refuses: 'Must authenticate first before publishing'.
\* It is a call like another: it is made while calls remain.
PublishRefused ==
  /\ ~PublishGuard
  /\ Calls < MaxCalls
  /\ last' = Step("publishRefused", 0, NoMsg, {})
  /\ UNCHANGED <<relay, isAuthenticated, authChallenge, readyState, onmessage,
                 authVars, proofSigning, pubVars, history>>

\* A call the guard lets through, up to `await signer.signEvent(event)`;
\* without window.nostr getNip07Signer() throws and the catch rethrows.
Publish(p, nostr) ==
  /\ PublishGuard
  /\ Calls < MaxCalls
  /\ pubPromise[p] = "none"
  /\ \A q \in Pubs : q < p => pubPromise[q] # "none"
  /\ pubPromise' = [pubPromise EXCEPT ![p] = IF nostr THEN "signing" ELSE "rej_nosigner"]
  /\ last' = Step(IF nostr THEN "publish" ELSE "publishNoSigner", p, NoMsg, {})
  /\ UNCHANGED <<relay, isAuthenticated, authChallenge, readyState, onmessage,
                 authVars, proofSigning, pubTimer, pubOrig, pubValue, pubConn,
                 history>>

\* this.relay!.send(eventMsg)
SendEvent(p) ==
  IF relay = 0 THEN {}
  ELSE Send(relay, Wire("EVENT", relay, 0, PublishEventId(p), relay))

\* The promise executor, once the event is signed: setTimeout, swap the
\* handler of this.relay, send.  With this.relay null reading its onmessage
\* throws; on a CONNECTING socket send throws, after the swap; the executor's
\* throw rejects the promise and leaves the timer armed.
Published(p) ==
  /\ pubPromise[p] = "signing"
  /\ pubTimer' = [pubTimer EXCEPT ![p] = "armed"]
  /\ IF relay = 0
     THEN /\ pubPromise' = [pubPromise EXCEPT ![p] = "rej_thrown"]
          /\ UNCHANGED <<pubOrig, pubConn, onmessage>>
     ELSE /\ pubOrig' = [pubOrig EXCEPT ![p] = onmessage[relay]]
          /\ pubConn' = [pubConn EXCEPT ![p] = relay]
          /\ onmessage' = [onmessage EXCEPT ![relay] = W(p)]
          /\ pubPromise' = [pubPromise EXCEPT ![p] =
                IF readyState[relay] = "CONNECTING" THEN "rej_thrown" ELSE "pending"]
  /\ last' = Step("published", p, NoMsg, SendEvent(p))
  /\ UNCHANGED <<relay, isAuthenticated, authChallenge, readyState, authVars,
                 proofSigning, pubValue, history>>

\* signer.signEvent(event) rejected: the catch rethrows.
PublishSignRefused(p) ==
  /\ pubPromise[p] = "signing"
  /\ pubPromise' = [pubPromise EXCEPT ![p] = "rej_sign"]
  /\ last' = Step("publishSignRefused", p, NoMsg, {})
  /\ UNCHANGED <<relay, isAuthenticated, authChallenge, readyState, onmessage,
                 authVars, proofSigning, pubTimer, pubOrig, pubValue, pubConn,
                 history>>

\* A faulty callback: the publish timer also clears the authentication flag.
PublishTimeoutTearsDown(p) ==
  /\ pubTimer[p] = "armed"
  /\ pubTimer' = [pubTimer EXCEPT ![p] = "fired"]
  /\ pubPromise' = [pubPromise EXCEPT ![p] = Settle(@, "rej_timeout")]
  /\ isAuthenticated' = FALSE
  /\ last' = Step("publishTimeout", p, NoMsg, {})
  /\ UNCHANGED <<relay, authChallenge, readyState, onmessage, authVars,
                 proofSigning, pubOrig, pubValue, pubConn, history>>

\* The setTimeout callback of a publish: reject, and nothing else.
PublishTimeout(p) ==
  /\ pubTimer[p] = "armed"
  /\ pubTimer' = [pubTimer EXCEPT ![p] = "fired"]
  /\ pubPromise' = [pubPromise EXCEPT ![p] = Settle(@, "rej_timeout")]
  /\ last' = Step("publishTimeout", p, NoMsg, {})
  /\ UNCHANGED <<relay, isAuthenticated, authChallenge, readyState, onmessage,
                 authVars, proofSigning, pubOrig, pubValue, pubConn, history>>

(***************************************************************************)
(* disconnect()                                                            *)
(***************************************************************************)
\* WebSocket.close(): the closing handshake starts; no message event follows.
CloseSocket(rs) == IF rs \in {"CONNECTING", "OPEN"} THEN "CLOSING" ELSE rs

\* A faulty disconnect(): the pending challenge is kept.
DisconnectKeepsChallenge ==
  /\ readyState' = IF relay = 0 THEN readyState
                   ELSE [readyState EXCEPT ![relay] = CloseSocket(@)]
  /\ relay' = 0
  /\ isAuthenticated' = FALSE
  /\ authResolved' = FALSE
  /\ last' = Step(IF last.op \in {"disconnect", "disconnectAgain"}
                  THEN "disconnectAgain" ELSE "disconnect", relay, NoMsg, {})
  /\ UNCHANGED <<authChallenge, onmessage, authVars, proofSigning, pubVars,
                 accepted, delivered, proofsSent, failed, challenged>>

\* The step is named disconnectAgain when the step before it was a
\* disconnect() too.
Disconnect ==
  /\ readyState' = IF relay = 0 THEN readyState
                   ELSE [readyState EXCEPT ![relay] = CloseSocket(@)]
  /\ relay' = 0
  /\ isAuthenticated' = FALSE
  /\ authChallenge' = 0
  /\ authResolved' = FALSE
  /\ last' = Step(IF last.op \in {"disconnect", "disconnectAgain"}
                  THEN "disconnectAgain" ELSE "disconnect", relay, NoMsg, {})
  /\ UNCHANGED <<onmessage, authVars, proofSigning, pubVars, accepted,
                 delivered, proofsSent, failed, challenged>>

\* The inbound messages of a run with two sockets (Spec); the runs on one
\* socket take MaxMsgs.
SpecMsgs == 2

\* The service used directly: the observers and the wrapper stand still.
Direct == UNCHANGED <<observers, wrapper>>

Next ==
  \/ \E k \in Conns, nostr \in Nip07 : Authenticate(k, nostr) /\ Direct
  \/ \E k \in Conns : PubkeyRefused(k) /\ Direct
  \/ \E k \in Conns : Connect(k) /\ Direct
  \/ \E c \in Conns : OnOpen(c) /\ Direct
  \/ \E c \in Conns, m \in Messages : delivered < SpecMsgs /\ OnMessage(c, m) /\ Direct
  \/ \E task \in proofSigning : ProofSigned(task) /\ Direct
  \/ \E task \in proofSigning : ProofRefused(task) /\ Direct
  \/ \E k \in Conns : AuthTimeout(k) /\ Direct
  \/ \E c \in Conns : OnError(c) /\ Direct
  \/ \E c \in Conns : OnClose(c) /\ Direct
  \/ PublishRefused /\ Direct
  \/ \E p \in Pubs, nostr \in Nip07 : Publish(p, nostr) /\ Direct
  \/ \E p \in Pubs : Published(p) /\ Direct
  \/ \E p \in Pubs : PublishSignRefused(p) /\ Direct
  \/ \E p \in Pubs : PublishTimeout(p) /\ Direct
  \/ Disconnect /\ Direct

Spec == Init /\ [][Next]_vars

\* Runs with at most LiveConn authenticate() calls, in which a timer that
\* stays armed fires: a setTimeout callback runs unless clearTimeout is called.
LiveConn == 1
FairNext ==
  \/ \E k \in 1..LiveConn, nostr \in Nip07 : Authenticate(k, nostr) /\ Direct
  \/ \E k \in Conns : PubkeyRefused(k) /\ Direct
  \/ \E k \in Conns : Connect(k) /\ Direct
  \/ \E c \in Conns : OnOpen(c) /\ Direct
  \/ \E c \in Conns, m \in Messages : OnMessage(c, m) /\ Direct
  \/ \E task \in proofSigning : ProofSigned(task) /\ Direct
  \/ \E task \in proofSigning : ProofRefused(task) /\ Direct
  \/ \E k \in Conns : AuthTimeout(k) /\ Direct
  \/ \E c \in Conns : OnError(c) /\ Direct
  \/ \E c \in Conns : OnClose(c) /\ Direct
  \/ PublishRefused /\ Direct
  \/ \E p \in Pubs, nostr \in Nip07 : Publish(p, nostr) /\ Direct
  \/ \E p \in Pubs : Published(p) /\ Direct
  \/ \E p \in Pubs : PublishSignRefused(p) /\ Direct
  \/ \E p \in Pubs : PublishTimeout(p) /\ Direct
  \/ Disconnect /\ Direct
\* The observers follow the step the service took.
Observed ==
  /\ observers' =
       [quiet |-> IF last'.op \in {"disconnect", "disconnectAgain"} THEN TRUE
                  ELSE IF last'.op \in {"authenticate", "authenticateNoSigner"} THEN FALSE
                  ELSE quiet,
        pubAfter |-> [p \in Pubs |->
                       IF pubPromise[p] = "none" /\ pubPromise'[p] # "none"
                       THEN {q \in Pubs : pubTimer[q] = "fired"}
                       ELSE pubAfter[p]]]
  /\ UNCHANGED wrapper

\* Runs of the service on one socket, observed.
TraceNext ==
  \/ \E k \in 1..LiveConn, nostr \in Nip07 : Authenticate(k, nostr) /\ Observed
  \/ \E k \in Conns : PubkeyRefused(k) /\ Observed
  \/ \E k \in Conns : Connect(k) /\ Observed
  \/ \E c \in Conns : OnOpen(c) /\ Observed
  \/ \E c \in Conns, m \in Messages : OnMessage(c, m) /\ Observed
  \/ \E task \in proofSigning : ProofSigned(task) /\ Observed
  \/ \E task \in proofSigning : ProofRefused(task) /\ Observed
  \/ \E k \in Conns : AuthTimeout(k) /\ Observed
  \/ \E c \in Conns : OnError(c) /\ Observed
  \/ \E c \in Conns : OnClose(c) /\ Observed
  \/ PublishRefused /\ Observed
  \/ \E p \in Pubs, nostr \in Nip07 : Publish(p, nostr) /\ Observed
  \/ \E p \in Pubs : Published(p) /\ Observed
  \/ \E p \in Pubs : PublishSignRefused(p) /\ Observed
  \/ \E p \in Pubs : PublishTimeout(p) /\ Observed
  \/ Disconnect /\ Observed
TraceSpec == Init /\ [][TraceNext]_vars

FairSpec ==
  /\ Init /\ [][FairNext]_vars
  /\ \A k \in Conns : WF_vars(AuthTimeout(k) /\ Direct)
  /\ \A p \in Pubs : WF_vars(PublishTimeout(p) /\ Direct)

(***************************************************************************)
(* Properties                                                              *)
(***************************************************************************)
Sent(t) == {w \in last.sent : w.t = t}

\* C1: while no authenticate() has resolved true since the session was
\* created or last disconnected, a publishKind30078Event call is refused by
\* the guard ('Must authenticate first before publishing') and puts nothing on
\* the wire.  The code lets the call through after a handshake that timed out:
\* the socket stays open and a late OK sets the flag.
C1_PublishNeedsResolvedAuthenticate == ~authResolved => ~PublishGuard

BecomesAuthenticated ==
  \/ ~isAuthenticated /\ isAuthenticated'
  \/ \E k \in Conns : authPromise[k] = "pending" /\ authPromise'[k] = "resolved"
\* C2: the session becomes authenticated, and an authenticate() promise
\* resolves true, only on an inbound OK with success = true whose id is the id
\* of a proof this session sent.  The code accepts any OK true with a
\* 64-character id.
C2_AcceptedOnlyByProofId ==
  [][BecomesAuthenticated =>
       /\ last'.op = "message"
       /\ last'.m.t = "OK" /\ last'.m.ok
       /\ last'.m.id \in proofsSent]_vars

OtherOk(p) == last.op = "message" /\ last.m.t = "OK" /\ last.m.id # PublishEventId(p)
\* C3: an inbound OK whose id is not the id of publish p's signed event
\* leaves p's promise pending, whatever its success flag and text.
C3_OtherIdNeverSettles ==
  [][\A p \in Pubs :
       pubPromise[p] = "pending" /\ OtherOk(p)' => pubPromise'[p] = "pending"]_vars
\* A publish is pending after an OK for another 64-character id arrived on
\* the socket that carries its handler.
C3_Witness ==
  \E p \in Pubs :
    /\ pubPromise[p] = "pending" /\ pubTimer[p] = "armed"
    /\ OtherOk(p) /\ Len64(last.m.id)
    /\ onmessage[last.c] = W(p)

\* C4: every AUTH proof the session sends carries the configured relay URL
\* and the challenge received last at the moment it is sent
\* (this.authChallenge is where the session keeps it).  The code fixes the
\* challenge tag before it awaits the signer: a proof signed late carries a
\* challenge that a newer one has replaced.
C4_ProofCarriesLastChallenge ==
  \A w \in Sent("AUTH") : w.url = config.relayUrl /\ w.ch = authChallenge

\* C5: an EVENT is only sent on a socket that has itself received an
\* acceptance OK.  The code sends on this.relay, which a second authenticate()
\* replaces while the flag set by the first socket stays.
C5_EventOnAcceptedConnection == \A w \in Sent("EVENT") : accepted[w.c]

Live(c) == readyState[c] \in {"CONNECTING", "OPEN"}
\* C6: when the handshake timer fires before acceptance, authenticate()
\* rejects with 'Authentication timeout', and the session is unauthenticated
\* and its socket no longer open.  The code only rejects.
C6_AuthTimeoutClosesConnection ==
  [][\A k \in Conns :
       authPromise[k] = "pending" /\ last'.op = "authTimeout" /\ last'.c = k
         => /\ authPromise'[k] = "rej_timeout"
            /\ ~isAuthenticated'
            /\ ~Live(k)']_vars

\* C7: the timer of a pending publish rejects it with 'Publish timeout' and
\* leaves the authentication flag, the connection handle and the sockets as
\* they are: a session that was authenticated on an open socket still is, and
\* the guard of a further publish still passes.
C7_PublishTimeoutKeepsSession ==
  [][\A p \in Pubs :
       last'.op = "publishTimeout" /\ last'.c = p
         => /\ pubPromise[p] = "pending" => pubPromise'[p] = "rej_timeout"
            /\ UNCHANGED <<isAuthenticated, relay, readyState>>
            /\ PublishGuard' = PublishGuard]_vars
\* A pending publish timed out on an authenticated session whose socket is
\* open, and the guard still passes.
C7_Witness ==
  /\ last.op = "publishTimeout"
  /\ pubPromise[last.c] = "rej_timeout"
  /\ PublishGuard
  /\ readyState[relay] = "OPEN"

\* C8: during the handshake, an OK with success = false for the id of a proof
\* the session sent, whatever its text, rejects authenticate() with the
\* authentication-failed error, closes the socket and leaves the session
\* unauthenticated.  The code rejects only when the text includes
\* 'auth-required', and never closes the socket.
C8_RejectionFailsAndCloses ==
  [][\A k \in Conns :
       /\ authPromise[k] = "pending"
       /\ last'.op = "message" /\ last'.c = k
       /\ last'.m.t = "OK" /\ ~last'.m.ok /\ last'.m.id \in proofsSent
       => /\ authPromise'[k] = "rej_failed"
          /\ ~isAuthenticated'
          /\ ~Live(k)']_vars

\* C9: once the transport failed a socket, the socket is closed and
\* getAuthStatus() is never true while that socket is the session's
\* connection.  The flag is the session's, and the handler of a socket an
\* earlier authenticate() left open sets it again.
C9_TransportErrorUnauthenticated ==
  \A c \in failed : readyState[c] = "CLOSED" /\ (relay = c => ~isAuthenticated)

InFlight == {p \in Pubs : pubPromise[p] \in {"signing", "pending"}}
\* C10: at most one publish is in flight; a call made while an earlier
\* publish has not settled fails fast.  The code has no such check.
C10_OnePublishInFlight == Cardinality(InFlight) <= 1

NoConnection(k) ==
  readyState[k] = "NONE" /\ authTimer[k] = "unset" /\ onmessage[k] = 0
\* C11: an authenticate() call that finds no window.nostr rejects with the
\* signer-unavailable error at once, sends nothing and leaves the connection
\* handle, the sockets and the timers as they are; the call never has a
\* socket, a handler or a timer afterwards.
C11_NoSignerNoConnection ==
  [][/\ \A k \in Conns : authPromise'[k] = "rej_nosigner" => NoConnection(k)'
     /\ \A k \in Conns :
          last'.op = "authenticateNoSigner" /\ last'.c = k
            => /\ authPromise'[k] = "rej_nosigner"
               /\ last'.sent = {}
               /\ UNCHANGED <<relay, readyState, onmessage, authTimer>>]_vars
\* An authenticate() call has just failed for want of a signer.
C11_Witness ==
  /\ last.op = "authenticateNoSigner"
  /\ authPromise[last.c] = "rej_nosigner"
  /\ NoConnection(last.c)

Session == <<relay, isAuthenticated, authChallenge, readyState, onmessage,
             authVars, proofSigning, pubVars>>
\* C12: after disconnect(), in whatever state it is called, this.relay is
\* null, the flag is false and the challenge is null; a disconnect() right
\* after a disconnect() changes nothing of the session.
C12_DisconnectIdempotent ==
  [][/\ last'.op \in {"disconnect", "disconnectAgain"}
          => relay' = 0 /\ ~isAuthenticated' /\ authChallenge' = 0
     /\ last'.op = "disconnectAgain" => UNCHANGED Session]_vars
\* A second disconnect() right after one that closed a socket and cleared a
\* challenge.
C12_Witness ==
  /\ last.op = "disconnectAgain"
  /\ \E c \in Conns : readyState[c] = "CLOSING"
  /\ challenged > 0

RECURSIVE InChain(_, _)
InChain(h, p) == h = W(p) \/ (h > MaxConn /\ InChain(pubOrig[h - MaxConn], p))
C13_WitnessResolved ==
  \E p \in Pubs :
    /\ last.op = "message" /\ last.m.ok
    /\ pubPromise[p] = "resolved"
    /\ pubValue[p] = Value(PublishEventId(p), "")

AuthSettled ==
  {"resolved", "rej_timeout", "rej_failed", "rej_transport", "rej_nosigner", "rej_pubkey"}
PubSettled ==
  {"resolved", "rej_timeout", "rej_failed", "rej_sign", "rej_thrown", "rej_nosigner"}
\* C14: an authenticate() or a publish that waits for the relay (its promise
\* is pending) eventually settles; a settled promise never changes; and a
\* pending promise that settles on a step that is neither a message nor a
\* transport error is rejected by its timer with the timeout error.
C14_SettlesOnce ==
  /\ \A k \in Conns : (authPromise[k] = "pending") ~> (authPromise[k] \in AuthSettled)
  /\ \A p \in Pubs : (pubPromise[p] = "pending") ~> (pubPromise[p] \in PubSettled)
  /\ [][/\ \A k \in Conns :
             /\ authPromise[k] \in AuthSettled => authPromise'[k] = authPromise[k]
             /\ /\ authPromise[k] = "pending" /\ authPromise'[k] # "pending"
                /\ last'.op \notin {"message", "error"}
                => last'.op = "authTimeout" /\ authPromise'[k] = "rej_timeout"
        /\ \A p \in Pubs :
             /\ pubPromise[p] \in PubSettled
                  => pubPromise'[p] = pubPromise[p] /\ pubValue'[p] = pubValue[p]
             /\ /\ pubPromise[p] = "pending" /\ pubPromise'[p] # "pending"
                /\ last'.op # "message"
                => last'.op = "publishTimeout" /\ pubPromise'[p] = "rej_timeout"]_vars
\* The relay sent nothing at all, and an authenticate() timed out.
C14_Witness ==
  /\ delivered = 0
  /\ last.op = "authTimeout"
  /\ authPromise[last.c] = "rej_timeout"
\* A publish timed out.
C14_WitnessPublish ==
  /\ last.op = "publishTimeout"
  /\ pubPromise[last.c] = "rej_timeout"
  /\ pubTimer[last.c] = "fired"

\* C15: an authenticate() call made on an authenticated session opens no
\* socket and leaves this.relay, the sockets and their handlers as they are.
\* The code has no such test: the call goes on to `new WebSocket` and replaces
\* this.relay.
C15_AuthenticatedCallOpensNothing ==
  [][\A k \in Conns :
       /\ last.op = "authenticate" /\ last.c = k /\ isAuthenticated
       /\ last'.op = "connect" /\ last'.c = k
       => UNCHANGED <<relay, readyState, onmessage>>]_vars

\* C16: at most one socket of the session is connecting or open.  Each
\* authenticate() creates a socket and closes none.
C16_OneLiveConnection == Cardinality({c \in Conns : Live(c)}) <= 1

\* C17: when the signer refuses the proof record, the pending authenticate()
\* rejects with that failure; when it refuses the publish record, the publish
\* rejects with that failure and sends no EVENT.  The handler's catch swallows
\* the first: authenticate() stays pending until its timer fires.
C17_SigningRefusalRejects ==
  [][/\ \A k \in Conns :
          authPromise[k] = "pending" /\ last'.op = "proofRefused" /\ last'.c = k
            => authPromise'[k] = "rej_sign"
     /\ \A p \in Pubs :
          last'.op = "publishSignRefused" /\ last'.c = p
            => pubPromise'[p] = "rej_sign" /\ last'.sent = {}]_vars

\* C18: an OK whose id is the id of a pending publish, delivered on the
\* socket the publish was sent on while its timer is armed, settles the
\* publish.  The handler an earlier publish restores removes the handlers
\* installed after it.
C18_MatchingOkSettles ==
  [][\A p \in Pubs :
       /\ pubPromise[p] = "pending" /\ pubTimer[p] = "armed"
       /\ last'.op = "message" /\ last'.c = pubConn[p]
       /\ last'.m.t = "OK" /\ last'.m.id = PublishEventId(p)
       => pubPromise'[p] # "pending"]_vars

\* C19: every AUTH challenge that arrives starts exactly one signing of a
\* proof for it, whatever publish handlers are installed, and once signed the
\* proof is sent if the socket the challenge came from is still open.  The
\* proof is sent on this.relay, which may be another socket that is still
\* connecting: the send throws and the challenge is left unanswered.
C19_ChallengeAlwaysAnswered ==
  [][/\ last'.op = "message" /\ last'.m.t = "AUTH"
          => /\ Cardinality(proofSigning' \ proofSigning) = 1
             /\ \A t \in proofSigning' \ proofSigning :
                  t.c = last'.c /\ t.ch = last'.m.ch
     /\ \A t \in proofSigning :
          last'.op = "proofSigned" /\ t \notin proofSigning' /\ readyState[t.c] = "OPEN"
            => Cardinality({w \in last'.sent : w.t = "AUTH" /\ w.ch = t.ch}) = 1]_vars

\* C20: a proof is sent on the socket its challenge came from, and a signing
\* sends at most one proof.  The code sends on this.relay as it is when the
\* signer answers.
C20_ProofOnChallengeConnection ==
  [][/\ \A w \in last'.sent : w.t = "AUTH" => w.c = w.from
     /\ last'.op = "proofSigned"
          => /\ Cardinality(proofSigning \ proofSigning') = 1
             /\ Cardinality(last'.sent) <= 1]_vars

\* C21: when the timer of a pending publish fires, the handler the publish
\* installed is in the handler chain of no socket any more, and the handler of
\* its socket is the one the publish had found.  The timer callback only
\* rejects: the handler stays installed.
C21_TimeoutReleasesHandler ==
  [][\A p \in Pubs :
       pubPromise[p] = "pending" /\ last'.op = "publishTimeout" /\ last'.c = p
         => /\ \A c \in Conns : ~InChain(onmessage'[c], p)
            /\ onmessage'[pubConn[p]] = pubOrig[p]]_vars

\* C22: this.authChallenge is null whenever no proof is being built or
\* signed.  The code clears it in disconnect() only: it keeps the challenge
\* after the proof was sent, and over a further authenticate().
C22_ChallengeDiscarded == proofSigning = {} => authChallenge = 0

\* C23: a CLOSED message, whatever its reason, leaves the flag, the
\* connection handle, the challenge, the sockets and their handlers, the
\* signings in flight and every promise and timer as they are, and sends
\* nothing.
C23_ClosedChangesNothing ==
  [][last'.op = "message" /\ last'.m.t = "CLOSED"
       => UNCHANGED Session /\ last'.sent = {} /\ UNCHANGED proofsSent]_vars
\* A CLOSED with an auth-required reason arrived while a publish was pending
\* with its handler on the socket.
C23_Witness ==
  /\ last.op = "message" /\ last.m.t = "CLOSED" /\ AuthRequired(last.m.text)
  /\ \E p \in Pubs : pubPromise[p] = "pending" /\ onmessage[last.c] = W(p)
\* A CLOSED with an auth-required reason arrived during the handshake.
C23_WitnessHandshake ==
  /\ last.op = "message" /\ last.m.t = "CLOSED" /\ AuthRequired(last.m.text)
  /\ authPromise[last.c] = "pending" /\ authTimer[last.c] = "armed"

AuthRejected == {"rej_timeout", "rej_failed", "rej_transport"}
\* C25: a message that arrives on the socket of an authenticate() call that
\* has rejected does not set the flag, unless an authenticate() resolves true
\* on that step.  The socket of a call that rejected stays open with its
\* handler, and any OK with success = true sets the flag.
C25_RejectedCallNeverAuthenticates ==
  [][\A k \in Conns :
       /\ authPromise[k] \in AuthRejected /\ ~isAuthenticated
       /\ last'.op = "message" /\ last'.c = k
       /\ ~\E j \in Conns : authPromise[j] = "pending" /\ authPromise'[j] = "resolved"
       => ~isAuthenticated']_vars

\* C26: a publish called after the timer of an earlier publish fired is
\* settled by the OK for its own id, whether the OK for the earlier one
\* arrives or not.  The handler of the earlier publish is still installed
\* below the later one; the late OK makes it restore the handler it had
\* found, which removes the later handler.
C26_LateOkLeavesLaterPublish ==
  [][\A p \in Pubs :
       /\ pubAfter[p] # {}
       /\ pubPromise[p] = "pending" /\ pubTimer[p] = "armed"
       /\ last'.op = "message" /\ last'.c = pubConn[p]
       /\ last'.m.t = "OK" /\ last'.m.id = PublishEventId(p)
       => pubPromise'[p] # "pending"]_vars

\* C27: an EVENT is only sent while the session is authenticated; a publish
\* whose session was closed or disconnected while it waited for the signer
\* sends none.  The guard is not tested again after the awaits.
C27_EventOnlyWhileAuthenticated == Sent("EVENT") # {} => isAuthenticated

\* C28: between the return of disconnect() and the next authenticate() call
\* the session sends nothing.  An authenticate() that was waiting for
\* getPublicKey() when disconnect() was called goes on to open a socket and
\* sends its REQ.
C28_SilentAfterDisconnect == quiet => last.sent = {}

\* C29: while the flag is true, this.relay is a socket, open, and the one
\* that received the acceptance.  The flag is the session's and the handler
\* of any socket the session ever opened sets it.
C29_FlagMeansAcceptedOpenConnection ==
  isAuthenticated => relay # 0 /\ readyState[relay] = "OPEN" /\ accepted[relay]

(***************************************************************************)
(* UseNostrAuth, the observable wrapper, on a NostrAuthService.  A wrapper *)
(* call runs up to its await of the service; what follows the await runs   *)
(* in the step that settles the service's promise.                         *)
(***************************************************************************)
\* What a signer rejects with: an Error with a message, or ("") a value that
\* is not an Error.
SignerErrors == {"User rejected", ""}
\* error instanceof Error ? error.message : unknown
Caught(e, unknown) == IF e = "" THEN unknown ELSE e
NoSignerMessage ==
  "NIP-07 extension not found. Please install a Nostr extension like Alby or nos2x."
\* The message of the TypeError or InvalidStateError the executor threw.
ThrownMessage == "TypeError"

\* The message of the Error an authenticate() promise rejected with.
AuthMessage(status, e) ==
  CASE status = "rej_timeout" -> "Authentication timeout"
    [] status = "rej_failed" -> "Authentication required but failed"
    [] status = "rej_transport" -> "WebSocket connection failed"
    [] status = "rej_nosigner" -> NoSignerMessage
    [] status = "rej_pubkey" -> Caught(e, "Unknown authentication error")

\* The message of the Error a publishKind30078Event() promise rejected with.
PubMessage(status, value, e) ==
  CASE status = "rej_timeout" -> "Publish timeout"
    [] status = "rej_failed" -> value.text
    [] status = "rej_thrown" -> ThrownMessage
    [] status = "rej_nosigner" -> NoSignerMessage
    [] status = "rej_sign" -> Caught(e, "Unknown publish error")

\* The wrapper's fields and the outcome of its calls.
Wrapper == [state |-> wstate, auth |-> wauth, pub |-> wpub, updates |-> <<>>]
\* updateState: the state is replaced; the step calls every listener of the
\* set with each state in turn.
UpdateState(X, state) == [X EXCEPT !.state = state, !.updates = Append(@, state)]
Call(kind, state, to) == [kind |-> kind, state |-> state, to |-> to]
StoreWrapper(X) ==
  wrapper' = [wrapper EXCEPT
    !.state = X.state, !.auth = X.auth, !.pub = X.pub,
    !.notified = [i \in DOMAIN X.updates |-> Call("update", X.updates[i], listeners)]]

\* A faulty catch: the error is recorded and thrown again.
AuthCaughtRethrows(k, message, X) ==
  [UpdateState(X, [X.state EXCEPT !.isAuthenticated = FALSE, !.isConnecting = FALSE,
                                  !.error = message])
     EXCEPT !.auth[k] = "rejected"]

\* authenticate(): the catch.
AuthCaught(k, message, X) ==
  [UpdateState(X, [X.state EXCEPT !.isAuthenticated = FALSE, !.isConnecting = FALSE,
                                  !.error = message])
     EXCEPT !.auth[k] = "false"]

\* authenticate(): after `await this.service.authenticate()`.
AuthReturned(k, status, e, X) ==
  IF status = "resolved"
  THEN [UpdateState(X, [X.state EXCEPT !.isAuthenticated = TRUE,
                                        !.isConnecting = FALSE, !.error = ""])
          EXCEPT !.auth[k] = "true"]
  ELSE AuthCaught(k, AuthMessage(status, e), X)

\* publishEvent(): the catch.
PublishCaught(p, message, X) ==
  [UpdateState(X, [X.state EXCEPT !.error = message]) EXCEPT !.pub[p] = "null"]

\* publishEvent(): after `await this.service.publishKind30078Event(...)`.
PublishReturned(p, status, value, e, X) ==
  IF status = "resolved"
  THEN [UpdateState(X, [X.state EXCEPT !.eventId = value.id, !.error = ""])
          EXCEPT !.pub[p] = "id"]
  ELSE PublishCaught(p, PubMessage(status, value, e), X)

RECURSIVE AuthContinue(_, _, _)
AuthContinue(ks, e, X) ==
  IF ks = {} THEN X
  ELSE LET k == CHOOSE j \in ks : \A i \in ks : j <= i
       IN AuthContinue(ks \ {k}, e, AuthReturned(k, authPromise'[k], e, X))
RECURSIVE PublishContinue(_, _, _)
PublishContinue(ps, e, X) ==
  IF ps = {} THEN X
  ELSE LET p == CHOOSE q \in ps : \A i \in ps : q <= i
       IN PublishContinue(ps \ {p}, e,
            PublishReturned(p, pubPromise'[p], pubValue'[p], e, X))

\* The wrapper calls that were waiting for a promise the step settled go on:
\* those of authenticate() first (the base handler runs first), then those of
\* publishEvent().
Continue(e, X) ==
  PublishContinue({p \in Pubs : X.pub[p] = "waiting" /\ pubPromise'[p] \in PubSettled}, e,
    AuthContinue({k \in Conns : X.auth[k] = "waiting" /\ authPromise'[k] \in AuthSettled}, e, X))

\* A step of the service the wrapper did not call: a socket event, a timer,
\* the signer's answer.
Follow ==
  /\ \E e \in (IF last'.op \in {"pubkeyRefused", "publishSignRefused"}
               THEN SignerErrors ELSE {""}) : StoreWrapper(Continue(e, Wrapper))
  /\ UNCHANGED observers

WrapperOnly == UNCHANGED <<Session, history, observers>>

\* authenticate() without window.nostr: the service is not called.
WAuthenticateNoSigner ==
  /\ StoreWrapper(UpdateState(Wrapper,
       [wstate EXCEPT !.error = "NIP-07 extension not found"]))
  /\ last' = Step("wAuthenticateNoSigner", 0, NoMsg, {})
  /\ WrapperOnly

\* authenticate() with window.nostr, up to its await.
WAuthenticate(k) ==
  /\ Authenticate(k, TRUE)
  /\ StoreWrapper([UpdateState(Wrapper, [wstate EXCEPT !.isConnecting = TRUE, !.error = ""])
                     EXCEPT !.auth[k] = "waiting"])
  /\ UNCHANGED observers

\* publishEvent() on a state that is not authenticated: the service is not
\* called.
WPublishRefused ==
  /\ ~wstate.isAuthenticated
  /\ StoreWrapper(UpdateState(Wrapper, [wstate EXCEPT !.error = "Must authenticate first"]))
  /\ last' = Step("wPublishRefused", 0, NoMsg, {})
  /\ WrapperOnly

\* publishEvent(), up to the call of the service.
PublishCalled(X) == UpdateState(X, [X.state EXCEPT !.error = ""])

\* publishEvent() on an authenticated state, refused by the service's guard:
\* the rejection is caught.
WPublishGuarded ==
  /\ wstate.isAuthenticated
  /\ PublishRefused
  /\ StoreWrapper(UpdateState(PublishCalled(Wrapper),
       [wstate EXCEPT !.error = "Must authenticate first before publishing"]))
  /\ UNCHANGED observers

\* publishEvent() on an authenticated state, let through by the service's
\* guard, up to its await.
WPublish(p, nostr) ==
  /\ wstate.isAuthenticated
  /\ Publish(p, nostr)
  /\ StoreWrapper(
       IF nostr
       THEN [PublishCalled(Wrapper) EXCEPT !.pub[p] = "waiting"]
       ELSE PublishCaught(p, NoSignerMessage, PublishCalled(Wrapper)))
  /\ UNCHANGED observers

\* disconnect(): the service's disconnect(), then every field cleared.
WDisconnect ==
  /\ Disconnect
  /\ StoreWrapper(UpdateState(Wrapper, State(FALSE, FALSE, "", 0)))
  /\ UNCHANGED observers

\* The service on one socket, called through the wrapper only.
WrapNext ==
  \/ WAuthenticateNoSigner
  \/ \E k \in 1..LiveConn : WAuthenticate(k)
  \/ \E k \in Conns : PubkeyRefused(k) /\ Follow
  \/ \E k \in Conns : Connect(k) /\ Follow
  \/ \E c \in Conns : OnOpen(c) /\ Follow
  \/ \E c \in Conns, m \in Messages : OnMessage(c, m) /\ Follow
  \/ \E task \in proofSigning : ProofSigned(task) /\ Follow
  \/ \E task \in proofSigning : ProofRefused(task) /\ Follow
  \/ \E k \in Conns : AuthTimeout(k) /\ Follow
  \/ \E c \in Conns : OnError(c) /\ Follow
  \/ \E c \in Conns : OnClose(c) /\ Follow
  \/ WPublishRefused
  \/ WPublishGuarded
  \/ \E p \in Pubs, nostr \in Nip07 : WPublish(p, nostr)
  \/ \E p \in Pubs : Published(p) /\ Follow
  \/ \E p \in Pubs : PublishSignRefused(p) /\ Follow
  \/ \E p \in Pubs : PublishTimeout(p) /\ Follow
  \/ WDisconnect
WrapSpec == Init /\ [][WrapNext]_vars

AuthReturn(k) ==
  IF authPromise[k] = "resolved" THEN "true"
  ELSE IF authPromise[k] \in AuthSettled THEN "false" ELSE "waiting"
PublishReturn(p) ==
  IF pubPromise[p] = "resolved" THEN "id"
  ELSE IF pubPromise[p] \in PubSettled THEN "null" ELSE "waiting"
AuthContinued(k) == wauth[k] = "waiting" /\ wauth'[k] # "waiting"
PublishContinued(p) == wpub[p] = "waiting" /\ wpub'[p] # "waiting"
\* C24: a wrapper call never rejects: authenticate() returns true when the
\* service's call resolved and false when it rejected, publishEvent() the id
\* or null; when a call returns false or null state.error is the message of
\* the service's error (of the publish, when both return on one step); a
\* refused call leaves a message too; and a publishEvent() on a state that is
\* not authenticated leaves the service as it is and sends nothing.
C24_FailuresAreValues ==
  [][/\ \A k \in Conns : authPromise'[k] # "none" => wauth'[k] = AuthReturn(k)'
     /\ \A p \in Pubs : pubPromise'[p] # "none" => wpub'[p] = PublishReturn(p)'
     /\ \A k \in Conns :
          AuthContinued(k) /\ wauth'[k] = "false" /\ (\A p \in Pubs : ~PublishContinued(p))
            => \E e \in SignerErrors : wstate'.error = AuthMessage(authPromise'[k], e)
                                        /\ wstate'.error # ""
     /\ \A p \in Pubs :
          wpub[p] # "null" /\ wpub'[p] = "null"
            => \E e \in SignerErrors :
                 /\ wstate'.error = PubMessage(pubPromise'[p], pubValue'[p], e)
                 /\ wstate'.error # ""
     /\ last'.op = "publishRefused" => wstate'.error # ""
     /\ last'.op = "wAuthenticateNoSigner" => wstate'.error # "" /\ UNCHANGED Session
     /\ ~wstate.isAuthenticated
          => /\ \A p \in Pubs : pubPromise[p] = "none" => pubPromise'[p] = "none"
             /\ last'.op # "publishRefused"
     /\ last'.op = "wPublishRefused"
          => wstate'.error # "" /\ UNCHANGED Session /\ last'.sent = {}]_vars
\* A publish the relay refused has returned null and left the relay's text.
C24_Witness ==
  \E p \in Pubs : /\ pubPromise[p] = "rej_failed" /\ wpub[p] = "null"
                   /\ wstate.error = PublishFailed("rate-limited")
\* An authenticate() that timed out has returned false and left the message.
C24_WitnessAuthenticate ==
  \E k \in Conns : /\ authPromise[k] = "rej_timeout" /\ wauth[k] = "false"
                    /\ wstate.error = "Authentication timeout"
\* A publishEvent() was refused by the wrapper.
C24_WitnessRefused == last.op = "wPublishRefused"

MaxListeners == 2
MaxSubs == 2
ListenCalls == 2
ListenMsgs == 2
Listeners == 1..MaxListeners
Range(q) == {q[i] : i \in DOMAIN q}
\* Set.prototype.add: an element the set holds is not added again.
Add(q, l) == IF l \in Range(q) THEN q ELSE Append(q, l)
\* Set.prototype.delete
Delete(q, l) == SelectSeq(q, LAMBDA x : x # l)

\* subscribe(listener): add, call with a copy of the state, return the
\* unsubscribe function.
Subscribe(l) ==
  /\ Len(handles) < MaxSubs
  /\ wrapper' = [wrapper EXCEPT !.listeners = Add(@, l),
                                 !.handles = Append(@, l),
                                 !.notified = <<Call("subscribe", wstate, <<l>>)>>]
  /\ last' = Step("subscribe", l, NoMsg, {})
  /\ WrapperOnly

\* A call of the unsubscribe function h.
Unsubscribe(h) ==
  /\ h \in DOMAIN handles
  /\ wrapper' = [wrapper EXCEPT !.listeners = Delete(@, handles[h]),
                                 !.cancelled = @ \cup {h},
                                 !.notified = <<>>]
  /\ last' = Step("unsubscribe", h, NoMsg, {})
  /\ WrapperOnly

\* The wrapper with its listeners, on one socket.
ListenNext ==
  \/ \E l \in Listeners : Subscribe(l)
  \/ \E h \in 1..MaxSubs : Unsubscribe(h)
  \/ WAuthenticateNoSigner
  \/ \E k \in 1..LiveConn : Calls < ListenCalls /\ WAuthenticate(k)
  \/ \E k \in Conns : PubkeyRefused(k) /\ Follow
  \/ \E k \in Conns : Connect(k) /\ Follow
  \/ \E c \in Conns : OnOpen(c) /\ Follow
  \/ \E c \in Conns, m \in Messages : delivered < ListenMsgs /\ OnMessage(c, m) /\ Follow
  \/ \E task \in proofSigning : ProofSigned(task) /\ Follow
  \/ \E task \in proofSigning : ProofRefused(task) /\ Follow
  \/ \E k \in Conns : AuthTimeout(k) /\ Follow
  \/ \E c \in Conns : OnError(c) /\ Follow
  \/ \E c \in Conns : OnClose(c) /\ Follow
  \/ WPublishRefused
  \/ WPublishGuarded
  \/ \E p \in Pubs, nostr \in Nip07 : Calls < ListenCalls /\ WPublish(p, nostr)
  \/ \E p \in Pubs : Published(p) /\ Follow
  \/ \E p \in Pubs : PublishSignRefused(p) /\ Follow
  \/ \E p \in Pubs : PublishTimeout(p) /\ Follow
  \/ WDisconnect
ListenSpec == Init /\ [][ListenNext]_vars

\* The listener holds an unsubscribe function it has not called.
Subscribed(l) == \E h \in DOMAIN handles : handles[h] = l /\ h \notin cancelled
Updates(calls) == SelectSeq(calls, LAMBDA n : n.kind = "update")
====
